---- MODULE Spec2Model ----
(***************************************************************************)
(* A model of dashboard_simple.py: a Streamlit script that loads a         *)
(* spreadsheet through a process-wide cache and, on every user interaction,*)
(* re-runs from the top and renders the page selected in the sidebar.      *)
(*                                                                         *)
(* One action models one full run of the script for one menu selection.    *)
(* Cells are integers: a rating is in tenths (45 is 4.5), a cost is in     *)
(* rupees, a categorical value is a positive code, NaN marks a missing     *)
(* cell.  Means are exact rationals <<numerator, denominator>>.            *)
(***************************************************************************)
EXTENDS Integers, Sequences, FiniteSets, TLC

VARIABLES
    storage,    \* the table held by cleaned_zomato.xlsx
    cache,      \* st.cache_data's entry for load_data: <<>> or <<table>>
    reads,      \* number of pd.read_excel calls so far
    hit,        \* whether the last run got its table from the cache
    heap,       \* the data frames alive at the end of the last run, by reference
    page,       \* the sidebar selection of the last run ("" before the first)
    out         \* what the last run rendered, and the exception that ended it

vars == <<storage, cache, reads, hit, heap, page, out>>

-----------------------------------------------------------------------------
(* Bounds of the model *)

MaxRows == 3        \* rows of a small table
MaxDistinct == 11   \* distinct categorical values of a wide table
MaxTail == 2        \* free rows after the fixed prefix of a long rating table

-----------------------------------------------------------------------------
(* Column names and cell values *)

NAME == "name"
RATE == "rate"
LOCATION == "location"
COST == "approx_cost(for two people)"
CUISINES == "cuisines"
REST_TYPE == "rest_type"
ONLINE_ORDER == "online_order"
BOOK_TABLE == "book_table"
COST_CATEGORY == "cost_category"

Columns == {NAME, RATE, LOCATION, COST, CUISINES, REST_TYPE, ONLINE_ORDER, BOOK_TABLE}

Pages == {"Overview", "Top 10", "Restaurant Analytics", "Customer Insights",
          "Performance Metrics"}

NaN == -1

Min(S) == CHOOSE x \in S : \A y \in S : x <= y
Max(S) == CHOOSE x \in S : \A y \in S : x >= y

-----------------------------------------------------------------------------
(* Exact rationals, for means *)

RECURSIVE GCD(_, _)
GCD(a, b) == IF b = 0 THEN a ELSE GCD(b, a % b)

Rat(n, d) == LET g == GCD(n, d) IN IF g = 0 THEN <<0, 0>> ELSE <<n \div g, d \div g>>
NaNRat == <<0, 0>>
Zero == <<0, 1>>                    \* the literal 0 of the "else 0" defaults
RatGt(a, b) == a[1] * b[2] > b[1] * a[2]

\* Round a non-negative rational times scale to the nearest integer, halves to even.
RoundHalfEven(r, scale) ==
    LET n == r[1] * scale
        d == r[2]
        q == n \div d
        rem2 == 2 * (n % d)
    IN  IF rem2 < d THEN q
        ELSE IF rem2 > d THEN q + 1
        ELSE IF q % 2 = 0 THEN q ELSE q + 1

-----------------------------------------------------------------------------
(* Data frames: [cols |-> set of column names, rows |-> sequence of rows],   *)
(* a row being a function from the frame's columns to cells.                 *)

\* the function f as an explicit table of its values, each computed once
Eval(f) == f @@ <<>>

NRows(df) == Len(df.rows)
Col(df, c) == Eval([i \in 1..NRows(df) |-> df.rows[i][c]])
HeadN(s, n) == SubSeq(s, 1, IF n < Len(s) THEN n ELSE Len(s))
NotNa(s) == {i \in DOMAIN s : s[i] # NaN}

\* Series.nunique(): distinct values, missing cells not counted
Nunique(s) == Cardinality({s[i] : i \in NotNa(s)})

RECURSIVE SumTo(_, _)
SumTo(s, n) == IF n = 0 THEN 0 ELSE SumTo(s, n - 1) + (IF s[n] = NaN THEN 0 ELSE s[n])

\* Series.mean(): skips missing cells, NaN when nothing is left
Mean(s) == IF NotNa(s) = {} THEN NaNRat ELSE Rat(SumTo(s, Len(s)), Cardinality(NotNa(s)))

-----------------------------------------------------------------------------
(* Sorting.  Series.sort_values and value_counts sort with the default      *)
(* kind 'quicksort', which pandas documents as not stable: rows with equal  *)
(* keys may come out in any order.  A run is given a tie order, which       *)
(* decides among equal keys; TieOrders names two of the possible outcomes,  *)
(* equal keys in input order and equal keys in reverse input order.         *)
(* Missing keys go last, in input order.                                    *)

TieOrders == {"input", "reverse"}
TieRank(tie, n, i) == IF tie = "input" THEN i ELSE n + 1 - i

\* keys: a sequence of rationals; the result lists their positions in descending order
ArgSortDesc(keys, tie) ==
    LET n == Len(keys)
        ks == Eval(keys)
        Before(i, j) ==
            IF ks[i] = NaNRat THEN ks[j] = NaNRat /\ i < j
            ELSE \/ ks[j] = NaNRat
                 \/ RatGt(ks[i], ks[j])
                 \/ ks[i] = ks[j] /\ TieRank(tie, n, i) < TieRank(tie, n, j)
        pos == Eval([i \in 1..n |-> 1 + Cardinality({j \in 1..n : Before(j, i)})])
    IN  [p \in 1..n |-> CHOOSE i \in 1..n : pos[i] = p]

\* the members of a set of integers in ascending order
RECURSIVE Ascending(_)
Ascending(S) == IF S = {} THEN <<>> ELSE LET m == Min(S) IN <<m>> \o Ascending(S \ {m})

\* the distinct values of a series in first-seen order, missing cells dropped
Unique(s) ==
    LET first == {i \in NotNa(s) : \A j \in 1..(i - 1) : s[j] # s[i]}
        at == Ascending(first)
    IN  Eval([k \in 1..Len(at) |-> s[at[k]]])

CountOf(s, v) == Cardinality({i \in DOMAIN s : s[i] = v})

\* value_counts(sort=False): the entries in first-seen order
ValueCountsUnsorted(s, tie) ==
    LET keys == Unique(s)
    IN  [k \in 1..Len(keys) |-> [value |-> keys[k], count |-> CountOf(s, keys[k])]]

\* Series.value_counts(): one (value, count) entry per distinct value, by count descending
ValueCounts(s, tie) ==
    LET keys == Unique(s)
        entries == Eval([k \in 1..Len(keys) |-> [value |-> keys[k], count |-> CountOf(s, keys[k])]])
        order == ArgSortDesc([k \in 1..Len(keys) |-> <<entries[k].count, 1>>], tie)
    IN  [p \in 1..Len(keys) |-> entries[order[p]]]

\* value_counts() of a categorical series: every category has an entry, also with count 0
ValueCountsCategorical(s, ncat, tie) ==
    LET entries == Eval([k \in 1..ncat |-> [value |-> k, count |-> CountOf(s, k)]])
        order == ArgSortDesc([k \in 1..ncat |-> <<entries[k].count, 1>>], tie)
    IN  [p \in 1..ncat |-> entries[order[p]]]

-----------------------------------------------------------------------------
(* DataFrame.nlargest(n, col): the rated rows by col descending, then the    *)
(* unrated rows, cut to n.  With n < len(df) equal ratings keep their input  *)
(* order (keep='first' over a mergesort); otherwise pandas takes             *)
(* sort_values(ascending=False).head(n), whose tie order is the run's.  The *)
(* result lists row positions.                                               *)

\* head(n) without the sort
NLargestUnsorted(df, n, col, tie) == HeadN(Ascending(1..NRows(df)), n)

NLargest(df, n, col, tie) ==
    LET s == Col(df, col)
        rated == Ascending(NotNa(s))
        unrated == Ascending(DOMAIN s \ NotNa(s))
        keys == Eval([k \in 1..Len(rated) |-> <<s[rated[k]], 1>>])
        order == ArgSortDesc(keys, IF n < Len(s) THEN "input" ELSE tie)
    IN  HeadN([k \in 1..Len(rated) |-> rated[order[k]]] \o unrated, n)

Project(df, at, cols) == [k \in 1..Len(at) |-> [c \in cols |-> df.rows[at[k]][c]]]

-----------------------------------------------------------------------------
(* groupby(key)[val].mean(): the rows are split by their key (rows with a    *)
(* missing key belong to no group), and each group's values are added up in  *)
(* row order, missing values skipped.                                        *)

GroupKeys(df, key) == {df.rows[i][key] : i \in NotNa(Col(df, key))}

\* itertools.groupby-style grouping: only the first unbroken run of rows with key g
GroupValuesFirstRun(df, key, val, g) ==
    LET first == Min({i \in 1..NRows(df) : df.rows[i][key] = g})
        run == {i \in first..NRows(df) : \A j \in first..i : df.rows[j][key] = g}
        at == Ascending(run)
    IN  Eval([k \in 1..Len(at) |-> df.rows[at[k]][val]])

GroupValues(df, key, val, g) ==
    LET at == Ascending({i \in 1..NRows(df) : df.rows[i][key] = g})
    IN  Eval([k \in 1..Len(at) |-> df.rows[at[k]][val]])

GroupSums(df, key, val) ==
    Eval([g \in GroupKeys(df, key) |->
            LET v == GroupValues(df, key, val, g)
            IN  <<SumTo(v, Len(v)), Cardinality(NotNa(v))>>])

GroupMean(df, key, val) ==
    LET acc == GroupSums(df, key, val)
    IN  [g \in DOMAIN acc |-> IF acc[g][2] = 0 THEN NaNRat ELSE Rat(acc[g][1], acc[g][2])]

\* groupby(key)[val].count(): the cells of val present in each group
GroupCount(df, key, val) ==
    LET acc == GroupSums(df, key, val)
    IN  [g \in DOMAIN acc |-> acc[g][2]]

\* DataFrame.round(2) of a mean held in units of 1/scale: hundredths, halves to even
Round2(r, scale) == IF r = NaNRat THEN NaNRat ELSE <<RoundHalfEven(r, scale), 1>>

-----------------------------------------------------------------------------
(* pd.cut(cost, bins=[0, 500, 1000, 2000, inf], labels=[...]): bin i is the  *)
(* interval (Bins[i], Bins[i+1]], open on the left and closed on the right;  *)
(* the last one has no upper edge.  A category is held as the position of    *)
(* its label, and a cost that falls in no bin gets no category.              *)

Bins == <<0, 500, 1000, 2000>>
Labels == <<"Budget", "Mid-range", "Premium", "Luxury">>

InBin(x, i) == Bins[i] < x /\ (i = Len(Bins) \/ x <= Bins[i + 1])

\* pd.cut(..., right=False): bins closed on the left and open on the right
CutLeftClosed(x) ==
    LET In(i) == Bins[i] <= x /\ (i = Len(Bins) \/ x < Bins[i + 1])
    IN  IF x = NaN \/ ~(\E i \in DOMAIN Bins : In(i)) THEN NaN
        ELSE CHOOSE i \in DOMAIN Bins : In(i)

Cut(x) ==
    IF x = NaN \/ ~(\E i \in DOMAIN Bins : InBin(x, i)) THEN NaN
    ELSE CHOOSE i \in DOMAIN Bins : InBin(x, i)

-----------------------------------------------------------------------------
(* DataFrame.sample(n): n distinct rows drawn at random, a ValueError when   *)
(* the frame has fewer than n rows.  A draw is named by the rows it leaves   *)
(* out.                                                                      *)

TopN == 10          \* head(10), nlargest(10, ...)
TopTypes == 8       \* head(8) of the restaurant types
SampleSize == 500   \* df.sample(500)

RECURSIVE Leftovers(_, _)
Leftovers(n, k) ==
    IF k = 0 THEN {{}}
    ELSE UNION {{c \cup {x} : x \in (1..n) \ c} : c \in Leftovers(n, k - 1)}

SampleDraws(df, n) == IF NRows(df) < n THEN {{}} ELSE Leftovers(NRows(df), NRows(df) - n)

CanSample(df, n) == n <= NRows(df)

SampleRows(df, left) == (1..NRows(df)) \ left

-----------------------------------------------------------------------------
(* A run of the script is a list of steps in source order.  A step renders   *)
(* a widget, renders nothing (its column check failed), or raises, which     *)
(* ends the run: the steps after it render nothing.                          *)

Show(w, v) == [w |-> w, exc |-> "none", val |-> <<v>>]
Omit(w) == [w |-> w, exc |-> "none", val |-> <<>>]
Raise(w, e) == [w |-> w, exc |-> e, val |-> <<>>]

Exec(steps) ==
    LET bad == {i \in DOMAIN steps : steps[i].exc # "none"}
        stop == IF bad = {} THEN Len(steps) + 1 ELSE Min(bad)
    IN  [error |-> IF bad = {} THEN "none" ELSE steps[stop].exc,
         shown |-> SubSeq(steps, 1, stop - 1)]

\* f"{x:.1f}" of a rating held in tenths, f"{x:.0f}" of a cost held in rupees
Format(v) == IF v = NaNRat THEN NaNRat ELSE <<RoundHalfEven(v, 1), 1>>
Metric(v) == [value |-> v, text |-> Format(v)]

Has(df, c) == c \in df.cols

-----------------------------------------------------------------------------
(* page == "Overview" *)

Overview(df) == Exec(<<
    IF Has(df, NAME) THEN Show("Total Restaurants", Nunique(Col(df, NAME)))
                     ELSE Raise("Total Restaurants", "KeyError"),
    Show("Avg Rating", Metric(IF Has(df, RATE) THEN Mean(Col(df, RATE)) ELSE Zero)),
    Show("Locations", IF Has(df, LOCATION) THEN Nunique(Col(df, LOCATION)) ELSE 0),
    Show("Avg Cost (2 people)", Metric(IF Has(df, COST) THEN Mean(Col(df, COST)) ELSE Zero))
    >>)

-----------------------------------------------------------------------------
(* page == "Top 10" *)

Top10(df, tie) == Exec(<<
    IF Has(df, CUISINES)
        THEN Show("Top 10 Cuisines", HeadN(ValueCounts(Col(df, CUISINES), tie), TopN))
        ELSE Omit("Top 10 Cuisines"),
    IF Has(df, LOCATION)
        THEN Show("Top 10 Locations", HeadN(ValueCounts(Col(df, LOCATION), tie), TopN))
        ELSE Omit("Top 10 Locations")
    >>)

-----------------------------------------------------------------------------
(* page == "Restaurant Analytics" *)

TopRatedColumns == {NAME, RATE, LOCATION, CUISINES}

RestaurantAnalytics(df, tie) == Exec(<<
    IF Has(df, RATE) THEN Show("Restaurant Rating Distribution", Col(df, RATE))
                     ELSE Omit("Restaurant Rating Distribution"),
    IF Has(df, COST) THEN Show("Cost Distribution (for 2 people)", Col(df, COST))
                     ELSE Omit("Cost Distribution (for 2 people)"),
    IF Has(df, NAME) /\ Has(df, RATE)
        THEN IF TopRatedColumns \subseteq df.cols
             THEN Show("Top Rated Restaurants",
                       [at |-> NLargest(df, TopN, RATE, tie),
                        rows |-> Project(df, NLargest(df, TopN, RATE, tie), TopRatedColumns)])
             ELSE Raise("Top Rated Restaurants", "KeyError")
        ELSE Omit("Top Rated Restaurants")
    >>)

-----------------------------------------------------------------------------
(* page == "Customer Insights" *)

CustomerInsights(df, tie, left) == Exec(<<
    IF Has(df, REST_TYPE)
        THEN Show("Restaurant Types", HeadN(ValueCounts(Col(df, REST_TYPE), tie), TopTypes))
        ELSE Omit("Restaurant Types"),
    IF Has(df, COST) /\ Has(df, RATE)
        THEN IF CanSample(df, SampleSize)
             THEN Show("Cost vs Rating Relationship", SampleRows(df, left))
             ELSE Raise("Cost vs Rating Relationship", "ValueError")
        ELSE Omit("Cost vs Rating Relationship"),
    IF Has(df, ONLINE_ORDER)
        THEN Show("Online Order Distribution", ValueCounts(Col(df, ONLINE_ORDER), tie))
        ELSE Omit("Online Order Distribution"),
    IF Has(df, ONLINE_ORDER) /\ Has(df, BOOK_TABLE)
        THEN Show("Table Booking Distribution", ValueCounts(Col(df, BOOK_TABLE), tie))
        ELSE Omit("Table Booking Distribution")
    >>)

-----------------------------------------------------------------------------
(* page == "Performance Metrics" *)

\* df.groupby('location').agg({...}).round(2).sort_values('rate', ascending=False)
LocationStats(df, tie) ==
    LET rate == GroupMean(df, LOCATION, RATE)
        cost == GroupMean(df, LOCATION, COST)
        count == GroupCount(df, LOCATION, NAME)
        keys == Ascending(DOMAIN rate)
        rows == Eval([k \in 1..Len(keys) |->
                    [location |-> keys[k],
                     rating |-> Round2(rate[keys[k]], 10),
                     cost |-> Round2(cost[keys[k]], 100),
                     count |-> count[keys[k]]]])
        order == ArgSortDesc([k \in 1..Len(keys) |-> rows[k].rating], tie)
    IN  [p \in 1..Len(keys) |-> rows[order[p]]]

\* df.groupby('cuisines')['rate'].mean().sort_values(ascending=False)
CuisineRatings(df, tie) ==
    LET rate == GroupMean(df, CUISINES, RATE)
        keys == Ascending(DOMAIN rate)
        order == ArgSortDesc([k \in 1..Len(keys) |-> rate[keys[k]]], tie)
    IN  [p \in 1..Len(keys) |-> [cuisine |-> keys[order[p]], rating |-> rate[keys[order[p]]]]]

\* df_cost = df: a second name for the same frame
DfAlias(h, r) == [heap |-> h, ref |-> r]

\* df.copy(): a new frame with the same cells
DfCopy(h, r) ==
    LET new == Max(DOMAIN h) + 1
    IN  [heap |-> [x \in DOMAIN h \cup {new} |-> IF x = new THEN h[r] ELSE h[x]], ref |-> new]

\* frame[c] = cells: the frame behind the reference gets the column
SetColumn(h, r, c, cells) ==
    [h EXCEPT ![r] =
        [cols |-> @.cols \cup {c},
         rows |-> [i \in DOMAIN @.rows |->
                     [k \in @.cols \cup {c} |-> IF k = c THEN cells[i] ELSE @.rows[i][k]]]]]

\* df_cost = df.copy(); df_cost['cost_category'] = pd.cut(df_cost[cost], ...)
CostFrames(h) ==
    LET copy == DfCopy(h, 1)
        cost == Col(copy.heap[copy.ref], COST)
    IN  [heap |-> SetColumn(copy.heap, copy.ref, COST_CATEGORY,
                            [i \in DOMAIN cost |-> Cut(cost[i])]),
         ref |-> copy.ref]

PerformanceOut(h, tie) ==
    LET df == h[1]
    IN  Exec(<<
        IF Has(df, LOCATION) /\ Has(df, RATE)
            THEN IF Has(df, COST) /\ Has(df, NAME)
                 THEN Show("Location Performance", HeadN(LocationStats(df, tie), TopN))
                 ELSE Raise("Location Performance", "KeyError")
            ELSE Omit("Location Performance"),
        IF Has(df, CUISINES) /\ Has(df, RATE)
            THEN Show("Top Cuisines by Rating", HeadN(CuisineRatings(df, tie), TopN))
            ELSE Omit("Top Cuisines by Rating"),
        IF Has(df, COST)
            THEN LET f == CostFrames(h)
                 IN  Show("Restaurant Categories by Cost",
                          ValueCountsCategorical(Col(f.heap[f.ref], COST_CATEGORY),
                                                 Len(Labels), tie))
            ELSE Omit("Restaurant Categories by Cost")
        >>)

\* the frames alive when the run ends: the copy exists once its block was reached
PerformanceHeap(h, o) ==
    IF o.error = "none" /\ Has(h[1], COST) THEN CostFrames(h).heap ELSE h

-----------------------------------------------------------------------------
(* load_data() under @st.cache_data: the first call reads the spreadsheet    *)
(* and stores the table; every later call is answered from the stored        *)
(* entry, and each caller gets a frame of its own.                           *)

\* load_data without the decorator: every call reads the file
CacheMiss(c) == FALSE

CacheHit(c) == c # <<>>

LoadData == IF CacheHit(cache) THEN cache[1] ELSE storage

Frames(table) == [r \in {1} |-> table]

Loaded ==
    /\ cache' = <<LoadData>>
    /\ reads' = IF CacheHit(cache) THEN reads ELSE reads + 1
    /\ hit' = CacheHit(cache)
    /\ UNCHANGED storage

RunOverview ==
    /\ Loaded
    /\ page' = "Overview"
    /\ out' = Overview(LoadData)
    /\ heap' = Frames(LoadData)

RunTop10 ==
    /\ Loaded
    /\ page' = "Top 10"
    /\ \E tie \in TieOrders : out' = Top10(LoadData, tie)
    /\ heap' = Frames(LoadData)

RunRestaurantAnalytics ==
    /\ Loaded
    /\ page' = "Restaurant Analytics"
    /\ \E tie \in TieOrders : out' = RestaurantAnalytics(LoadData, tie)
    /\ heap' = Frames(LoadData)

RunCustomerInsights ==
    /\ Loaded
    /\ page' = "Customer Insights"
    /\ \E tie \in TieOrders, left \in SampleDraws(LoadData, SampleSize) :
            out' = CustomerInsights(LoadData, tie, left)
    /\ heap' = Frames(LoadData)

RunPerformanceMetrics ==
    /\ Loaded
    /\ page' = "Performance Metrics"
    /\ \E tie \in TieOrders :
            /\ out' = PerformanceOut(Frames(LoadData), tie)
            /\ heap' = PerformanceHeap(Frames(LoadData), out')

\* Somebody rewrites the spreadsheet after it was loaded (here: drops its last row).
ModifyFile ==
    /\ CacheHit(cache)
    /\ storage = cache[1]
    /\ NRows(storage) > 0
    /\ storage' = [storage EXCEPT !.rows = SubSeq(@, 1, Len(@) - 1)]
    /\ UNCHANGED <<cache, reads, hit, heap, page, out>>

Next ==
    \/ RunOverview
    \/ RunTop10
    \/ RunRestaurantAnalytics
    \/ RunCustomerInsights
    \/ RunPerformanceMetrics
    \/ ModifyFile

-----------------------------------------------------------------------------
(* The spreadsheets the model is run on *)

Row(n, r, l, c, cu, rt, oo, bt) ==
    (NAME :> n) @@ (RATE :> r) @@ (LOCATION :> l) @@ (COST :> c) @@
    (CUISINES :> cu) @@ (REST_TYPE :> rt) @@ (ONLINE_ORDER :> oo) @@ (BOOK_TABLE :> bt)

Table(cols, rows) ==
    [cols |-> cols, rows |-> [i \in DOMAIN rows |-> [c \in cols |-> rows[i][c]]]]

\*            name rate location cost cuisines rest_type online_order book_table
RowPool == {Row(1, 45, 1, 500, 1, 1, 1, 2),
            Row(2, 30, 2, 501, 2, 2, 2, 1),
            Row(3, 40, 1, 0, 1, 1, 1, 2),
            Row(1, NaN, NaN, NaN, 3, NaN, NaN, NaN)}

SeqsUpTo(S, n) == UNION {[1..k -> S] : k \in 0..n}

\* the column sets a spreadsheet may lack: none, any one, and some pairs
AbsentSets == {{}} \cup {{c} : c \in Columns}
              \cup {{NAME, RATE}, {RATE, LOCATION}, {RATE, COST}, {LOCATION, COST}}

SmallTables == {Table(Columns \ a, rows) : a \in AbsentSets, rows \in SeqsUpTo(RowPool, MaxRows)}

\* Wide categorical tables: k distinct values, the ones in twice listed twice, the
\* largest code first; cuisines, location and rest_type all hold the value.
Repeated(k, twice) ==
    LET at == Ascending({2 * v : v \in 1..k} \cup {2 * v + 1 : v \in twice})
    IN  [i \in 1..Len(at) |-> k + 1 - (at[i] \div 2)]

CategoricalRows(vals) ==
    [i \in DOMAIN vals |-> Row(i, 30 + 5 * (vals[i] % 4), vals[i], 500, vals[i], vals[i], 1, 2)]

CategoricalTables ==
    UNION {{Table(Columns, CategoricalRows(Repeated(k, twice))) :
                twice \in {t \in SUBSET (1..k) : Cardinality(t) <= 2}} :
           k \in (MaxDistinct - 3)..MaxDistinct}

\* Long rating tables: TopN - 1 rows of a fixed pattern, then up to MaxTail free rows.
RatingPrefixes == {[i \in 1..(TopN - 1) |-> 40],
                   [i \in 1..(TopN - 1) |-> NaN],
                   [i \in 1..(TopN - 1) |-> IF i % 2 = 0 THEN 45 ELSE 30]}

RatingRows(rates) ==
    [i \in DOMAIN rates |-> Row(i, rates[i], 1 + (i % 2), 500, 1 + (i % 3), 1, 1, 2)]

RatingTables ==
    {Table(Columns, RatingRows(pre \o tail)) :
        pre \in RatingPrefixes, tail \in SeqsUpTo({NaN, 30, 45}, MaxTail)}

\* Cost tables: one or two rows whose costs sit on and around the bin edges.
CostSamples == {NaN, 0, 1, 499, 500, 501, 999, 1000, 1001, 1999, 2000, 2001, 5000}

CostRows(costs) == [i \in DOMAIN costs |-> Row(i, 40, 1, costs[i], 1, 1, 1, 2)]

CostTables == {Table(Columns, CostRows(costs)) : costs \in SeqsUpTo(CostSamples, 2) \ {<<>>}}

WideTables ==
    CategoricalTables \cup RatingTables \cup CostTables
    \cup {Table(Columns, rows) : rows \in SeqsUpTo(RowPool, MaxRows)}

InitWith(tables) ==
    /\ storage \in tables
    /\ cache = <<>>
    /\ reads = 0
    /\ hit = FALSE
    /\ heap = [r \in {} |-> 0]
    /\ page = ""
    /\ out = [error |-> "none", shown |-> <<>>]

Init == InitWith(SmallTables)

Spec == Init /\ [][Next]_vars

\* The first run of the script on each of the wide tables.
InitWide == InitWith(WideTables)

FirstRun ==
    /\ page = ""
    /\ \/ RunOverview
       \/ RunTop10
       \/ RunRestaurantAnalytics
       \/ RunCustomerInsights
       \/ RunPerformanceMetrics

SpecWide == InitWide /\ [][FirstRun]_vars

-----------------------------------------------------------------------------
(* Properties *)

\* what the last run rendered under the title w: <<>> or <<value>>
Shown(w) ==
    LET at == {i \in DOMAIN out.shown : out.shown[i].w = w}
    IN  IF at = {} THEN <<>> ELSE out.shown[CHOOSE i \in at : TRUE].val

IsShown(w) == Shown(w) # <<>>

\* the table the last run worked on
Table0 == cache[1]

\* C1: on a table that lacks exactly one column no page reads the missing
\* column unchecked: whatever the selection, the run does not end in the
\* KeyError that such a read raises.
C1_MissingColumnNeverRaises ==
    (page # "" /\ Cardinality(Columns \ Table0.cols) = 1) => out.error # "KeyError"

\* C2: on the Overview page each of the three metrics is 0 when its own column
\* is absent and the mean (or the distinct count) of that column otherwise,
\* whatever other columns are absent.
C2_OverviewDefaults ==
    page = "Overview" =>
        /\ Shown("Avg Rating") =
              <<Metric(IF RATE \in Table0.cols THEN Mean(Col(Table0, RATE)) ELSE Zero)>>
        /\ Shown("Locations") =
              <<IF LOCATION \in Table0.cols THEN Nunique(Col(Table0, LOCATION)) ELSE 0>>
        /\ Shown("Avg Cost (2 people)") =
              <<Metric(IF COST \in Table0.cols THEN Mean(Col(Table0, COST)) ELSE Zero)>>

\* the three top-N frequency charts: title, column, N
TopNCharts == {<<"Top 10 Cuisines", CUISINES, TopN>>,
               <<"Top 10 Locations", LOCATION, TopN>>,
               <<"Restaurant Types", REST_TYPE, TopTypes>>}

Occurrences(s, v) == {i \in DOMAIN s : s[i] = v}

\* e lists at most n distinct values of s with their row counts, by count
\* descending, and no value left out occurs more often than one listed
TopNByCount(e, s, n) ==
    /\ Len(e) <= n
    /\ \A i \in DOMAIN e :
          /\ e[i].value # NaN
          /\ e[i].count = Cardinality(Occurrences(s, e[i].value))
          /\ e[i].count >= 1
    /\ \A i, j \in DOMAIN e : i < j => e[i].count >= e[j].count /\ e[i].value # e[j].value
    /\ \A r \in NotNa(s) :
          (\A i \in DOMAIN e : e[i].value # s[r]) =>
              (\A i \in DOMAIN e : Cardinality(Occurrences(s, s[r])) <= e[i].count)

\* values of equal count are listed in the order of their first occurrence in s
TiesFirstSeen(e, s) ==
    \A i, j \in DOMAIN e :
        (i < j /\ e[i].count = e[j].count) =>
            Min(Occurrences(s, e[i].value)) < Min(Occurrences(s, e[j].value))

\* C3 (as amended): every top-N chart lists at most N (value, count) entries,
\* each count the number of rows holding the value, by count descending, and
\* every value left out has a count no greater than the smallest one listed;
\* the order among values of equal count is not fixed.
C3_TopNByCount ==
    \A q \in TopNCharts :
        IsShown(q[1]) => TopNByCount(Shown(q[1])[1], Col(Table0, q[2]), q[3])

\* C3 (as claimed): the same, and values of equal count are listed in the order
\* of their first occurrence in the table.
C3_TopNFirstSeenTies ==
    \A q \in TopNCharts :
        IsShown(q[1]) =>
            /\ TopNByCount(Shown(q[1])[1], Col(Table0, q[2]), q[3])
            /\ TiesFirstSeen(Shown(q[1])[1], Col(Table0, q[2]))

\* A cuisine chart cut to N entries out of more than N values, two of its
\* entries of equal count.
C3_Witness ==
    /\ IsShown("Top 10 Cuisines")
    /\ Len(Shown("Top 10 Cuisines")[1]) = TopN
    /\ Nunique(Col(Table0, CUISINES)) > TopN
    /\ \E i, j \in 1..TopN :
          i < j /\ Shown("Top 10 Cuisines")[1][i].count = Shown("Top 10 Cuisines")[1][j].count

TierName(cat) == IF cat = NaN THEN "none" ELSE Labels[cat]

\* the frames that carry a cost_category column
TierFrames == {r \in DOMAIN heap : COST_CATEGORY \in heap[r].cols}

\* C4: a cost of exactly 500 is Budget, 501 to 1000 is Mid-range, 1001 to 2000
\* is Premium, and a cost above 2000 is Luxury.
C4_TierBoundaries ==
    \A r \in TierFrames : \A i \in DOMAIN heap[r].rows :
        LET c == heap[r].rows[i][COST]
            t == TierName(heap[r].rows[i][COST_CATEGORY])
        IN  /\ c = 500 => t = "Budget"
            /\ (501 <= c /\ c <= 1000) => t = "Mid-range"
            /\ (1001 <= c /\ c <= 2000) => t = "Premium"
            /\ c > 2000 => t = "Luxury"

\* A categorized frame with a row on a bin edge and a row just above it, one
\* tier apart.
C4_Witness ==
    \E r \in TierFrames : \E i, j \in DOMAIN heap[r].rows :
        /\ heap[r].rows[i][COST] \in {500, 1000, 2000}
        /\ heap[r].rows[j][COST] = heap[r].rows[i][COST] + 1
        /\ heap[r].rows[j][COST_CATEGORY] = heap[r].rows[i][COST_CATEGORY] + 1

RowOrders(n) == {f \in [1..n -> 1..n] : \A i, j \in 1..n : f[i] = f[j] => i = j}

Reordered(df, f) == [cols |-> df.cols, rows |-> [i \in 1..NRows(df) |-> df.rows[f[i]]]]

RatingsAt(df, g) ==
    LET at == Ascending({i \in 1..NRows(df) : df.rows[i][LOCATION] = g})
    IN  [k \in 1..Len(at) |-> df.rows[at[k]][RATE]]

\* C5: the mean rating of a location is the mean of the ratings of exactly the
\* rows with that location, and it is the same for every reordering of the
\* table's rows; the location table shows it rounded to two decimals.
C5_GroupMeanOrderFree ==
    IsShown("Location Performance") =>
        LET m == GroupMean(Table0, LOCATION, RATE)
            e == Shown("Location Performance")[1]
        IN  /\ \A f \in RowOrders(NRows(Table0)) :
                  GroupMean(Reordered(Table0, f), LOCATION, RATE) = m
            /\ \A g \in DOMAIN m : m[g] = Mean(RatingsAt(Table0, g))
            /\ DOMAIN m = {Table0.rows[i][LOCATION] : i \in NotNa(Col(Table0, LOCATION))}
            /\ \A k \in DOMAIN e : e[k].rating = Round2(m[e[k].location], 10)

\* The location table of a table in which two rows of one location, with
\* different ratings, are separated by a row of another location.
C5_Witness ==
    /\ IsShown("Location Performance")
    /\ \E i, j, k \in 1..NRows(Table0) :
          /\ i < k /\ k < j
          /\ Table0.rows[i][LOCATION] = Table0.rows[j][LOCATION]
          /\ Table0.rows[i][LOCATION] # NaN
          /\ Table0.rows[k][LOCATION] \notin {NaN, Table0.rows[i][LOCATION]}
          /\ Table0.rows[i][RATE] # NaN /\ Table0.rows[j][RATE] # NaN
          /\ Table0.rows[i][RATE] # Table0.rows[j][RATE]

\* C6: the loaded table never changes: once it is loaded every step leaves it
\* as it is, and at the end of every run the frame df still equals it; the
\* cost_category column is only ever on the copy.
C6_TableNeverMutated ==
    [][/\ cache # <<>> => cache' = cache
       /\ page' # "" => heap'[1] = cache'[1] /\ COST_CATEGORY \notin heap'[1].cols]_vars

\* A re-run of Performance Metrics that categorized a copy.
C6_Witness ==
    /\ page = "Performance Metrics"
    /\ hit
    /\ \E r \in TierFrames : r # 1
    /\ heap[1] = Table0

\* C7: a run (a step that leaves the file alone) reads the file only if it is
\* the first, and then caches what it read; every later run is answered from
\* the cache, which it leaves as it is; so the file is read at most once and
\* every run works on the table of the first read.
C7_LoadOnce ==
    [][storage' = storage =>
          /\ IF page = ""
                THEN reads' = 1 /\ ~hit' /\ cache' = <<storage>>
                ELSE hit' /\ reads' = reads /\ cache' = cache
          /\ reads' <= 1
          /\ heap'[1] = cache'[1]]_vars

\* A run answered from the cache after the file was rewritten.
C7_Witness ==
    /\ page # ""
    /\ hit
    /\ reads = 1
    /\ storage # Table0
    /\ heap[1] = Table0

\* C8: the top-rated table lists at most 10 rows of the table, by rating
\* descending, no row left out is rated higher than a row listed, and with 10
\* or more rated rows exactly 10 are listed.
C8_TopRated ==
    IsShown("Top Rated Restaurants") =>
        LET v == Shown("Top Rated Restaurants")[1]
            at == v.at
            rate == Col(Table0, RATE)
        IN  /\ Len(at) <= TopN
            /\ \A k \in DOMAIN at : at[k] \in 1..NRows(Table0)
            /\ \A k, l \in DOMAIN at : k # l => at[k] # at[l]
            /\ v.rows = [k \in DOMAIN at |-> [c \in TopRatedColumns |-> Table0.rows[at[k]][c]]]
            /\ \A k, l \in DOMAIN at :
                  k < l => \/ rate[at[l]] = NaN
                           \/ rate[at[k]] # NaN /\ rate[at[k]] >= rate[at[l]]
            /\ \A i \in NotNa(rate) :
                  (\A k \in DOMAIN at : at[k] # i) =>
                      (\A k \in DOMAIN at : rate[at[k]] # NaN /\ rate[i] <= rate[at[k]])
            /\ Cardinality(NotNa(rate)) >= TopN => Len(at) = TopN

\* Ten rows listed out of more, a rated row left out, among the listed rows
\* two of equal and two of different rating.
C8_Witness ==
    /\ IsShown("Top Rated Restaurants")
    /\ Len(Shown("Top Rated Restaurants")[1].at) = TopN
    /\ NRows(Table0) > TopN
    /\ \E i \in NotNa(Col(Table0, RATE)) :
          \A k \in 1..TopN : Shown("Top Rated Restaurants")[1].at[k] # i
    /\ \E k \in 1..(TopN - 1) :
          Table0.rows[Shown("Top Rated Restaurants")[1].at[k]][RATE]
              # Table0.rows[Shown("Top Rated Restaurants")[1].at[k + 1]][RATE]
    /\ \E k \in 1..(TopN - 1) :
          Table0.rows[Shown("Top Rated Restaurants")[1].at[k]][RATE]
              = Table0.rows[Shown("Top Rated Restaurants")[1].at[k + 1]][RATE]

\* C9: every record with a cost, a cost of 0 included, gets one of the four
\* tiers, so the counts of the cost pie add up to the number of records that
\* have a cost.
C9_TiersCoverEveryCost ==
    IsShown("Restaurant Categories by Cost") =>
        LET e == Shown("Restaurant Categories by Cost")[1]
        IN  /\ Len(e) = Len(Labels)
            /\ e[1].count + e[2].count + e[3].count + e[4].count
                  = Cardinality(NotNa(Col(Table0, COST)))
            /\ \A r \in TierFrames : \A i \in DOMAIN heap[r].rows :
                  heap[r].rows[i][COST] # NaN => heap[r].rows[i][COST_CATEGORY] # NaN

\* C10: with the cost and rate columns present the Customer Insights page
\* runs to its end whatever the number of rows, and its scatter plots at most
\* 500 distinct rows of the table.
C10_ScatterNeverRaises ==
    (page = "Customer Insights" /\ {COST, RATE} \subseteq Table0.cols) =>
        /\ out.error = "none"
        /\ IsShown("Cost vs Rating Relationship")
        /\ Shown("Cost vs Rating Relationship")[1] \subseteq 1..NRows(Table0)
        /\ Cardinality(Shown("Cost vs Rating Relationship")[1]) <= SampleSize

====
